---- MODULE Spec2Model ----
(***************************************************************************)
(* rust-i18n: the generated runtime lookup (crates/macro/src/lib.rs) and   *)
(* the cargo-i18n command line tool (crates/cli/src/main.rs).              *)
(*                                                                         *)
(* Strings that the code inspects character by character (locale           *)
(* identifiers, keys and values of the runtime lookup) are sequences of    *)
(* one-character strings.  Option<T> is a sequence of length 0 (None) or   *)
(* 1 (Some).                                                               *)
(***************************************************************************)
EXTENDS Integers, Sequences, FiniteSets, TLC

VARIABLES
    \* ---- runtime lookup (crates/macro/src/lib.rs) ----
    backend,        \* _RUST_I18N_BACKEND: locale -> key -> value
    fallback,       \* _RUST_I18N_FALLBACK_LOCALE: Option<&[&str]>
    op,             \* the generated function called last
    locale,         \* its locale argument
    key,            \* its key argument
    try_result,     \* what _rust_i18n_try_translate returned
    tr_result,      \* what _rust_i18n_translate returned
    probed,         \* the locales handed to _RUST_I18N_BACKEND.translate, in order
    \* ---- filter_locales (crates/cli/src/main.rs) ----
    f_pc,               \* position inside filter_locales
    available_locales,  \* its &mut HashSet<String> argument
    available_in,       \* the value of that argument at entry
    locales,            \* its locales: &[String] argument (the -l tokens)
    modifier_i,         \* position of the for loop over the modifiers
    \* ---- i18n_export (crates/cli/src/main.rs) ----
    e_pc,               \* position inside i18n_export
    tmp_trs,            \* the loaded store: locale -> key -> text
    config,             \* I18nConfig: available_locales, default_locale
    args,               \* I18nExportArgs: locales, missed
    sorted_locales,     \* the exported locales, sorted
    sorted_keys,        \* the union of the store's keys, sorted
    new_trs,            \* IndexMap key -> IndexMap locale -> text, as entry lists
    csv,                \* the records convert_csv_text writes
    \* ---- i18n, the extract command (crates/cli/src/main.rs) ----
    x_pc,               \* position inside i18n
    sources,            \* the crate's source files: path -> texts of its t! calls
    processed,          \* the paths iter_crate has handed over, in order
    cfg,                \* I18nConfig: minify_key
    translate,          \* args.translate: Option<Vec<(String, String)>>
    results,            \* HashMap<String, Message>
    results_scanned,    \* results as the scan left it
    messages,           \* the entries of results sorted by index
    \* ---- convert_text, write_file and the file system ----
    fs,                 \* path -> Option<content of the file>
    fs_in,              \* the file system when the command started
    out_text,           \* Option<the text convert_text returned>
    result,             \* the command's Result, "running" until it returns
    w_pc,               \* position inside write_file
    w_path,             \* write_file's argument path
    \* ---- i18n_sort (crates/cli/src/main.rs) ----
    s_pc,               \* position inside i18n_sort
    sort_args,          \* I18nSortArgs: inplace, reverse
    locale_files,       \* path -> what load_locale reads from it
    entries,            \* the glob's matches still to come, in order
    entry,              \* the match at hand
    skipped,            \* the matches passed over by `continue`
    sorted_to,          \* match -> the path its sorted table went to
    \* ---- translate_value_parser (crates/cli/src/main.rs) ----
    p_pc,               \* position inside translate_value_parser
    p_s,                \* its argument s
    p_result,           \* Option<(key, msg)> it returned
    \* ---- the current locale and the Lazy backend (crates/macro/src/lib.rs) ----
    CURRENT_LOCALE,     \* what rust_i18n::set_locale stored last
    default_locale,     \* Args::default_locale: Option<String>
    lazy_built,         \* whether the Lazy closure of _RUST_I18N_BACKEND has run
    locale_before       \* the current locale when the last call started

lookupVars == <<backend, fallback, op, locale, key, try_result, tr_result, probed>>

filterVars == <<f_pc, available_locales, available_in, locales, modifier_i>>

exportVars == <<e_pc, tmp_trs, config, args, sorted_locales, sorted_keys, new_trs, csv>>

extractVars ==
    <<x_pc, sources, processed, cfg, translate, results, results_scanned, messages>>

outputVars == <<fs, fs_in, out_text, result, w_pc, w_path>>

sortVars == <<s_pc, sort_args, locale_files, entries, entry, skipped, sorted_to>>

parserVars == <<p_pc, p_s, p_result>>

localeVars == <<CURRENT_LOCALE, default_locale, lazy_built, locale_before>>

vars == <<lookupVars, filterVars, exportVars, extractVars,
          outputVars, sortVars, parserVars, localeVars>>

\* what each part of the program leaves alone
notLookup == <<filterVars, exportVars, extractVars, outputVars, sortVars, parserVars, localeVars>>
notFilter == <<lookupVars, exportVars, extractVars, outputVars, sortVars, parserVars, localeVars>>
notExport == <<lookupVars, filterVars, extractVars, outputVars, sortVars, parserVars, localeVars>>
notExtract == <<lookupVars, filterVars, exportVars, outputVars, sortVars, parserVars, localeVars>>
notOutput == <<lookupVars, filterVars, extractVars, sortVars, parserVars, localeVars>>
notSort == <<lookupVars, filterVars, extractVars, parserVars, localeVars>>
notParser == <<lookupVars, filterVars, exportVars, extractVars, outputVars, sortVars, localeVars>>
notLocale == <<filterVars, exportVars, extractVars, outputVars, sortVars, parserVars>>

None == <<>>
Some(v) == <<v>>

(***************************************************************************)
(* The parts of the state a specification does not use stay at rest.       *)
(***************************************************************************)
LookupIdle ==
    /\ backend = <<>>
    /\ fallback = None
    /\ op = "none"
    /\ locale = <<>>
    /\ key = <<>>
    /\ try_result = None
    /\ tr_result = <<>>
    /\ probed = <<>>

FilterIdle ==
    /\ f_pc = "idle"
    /\ available_locales = {}
    /\ available_in = {}
    /\ locales = <<>>
    /\ modifier_i = 0

ExportIdle ==
    /\ e_pc = "idle"
    /\ tmp_trs = <<>>
    /\ config = <<>>
    /\ args = <<>>
    /\ sorted_locales = <<>>
    /\ sorted_keys = <<>>
    /\ new_trs = <<>>
    /\ csv = <<>>

ExtractIdle ==
    /\ x_pc = "idle"
    /\ sources = <<>>
    /\ processed = <<>>
    /\ cfg = <<>>
    /\ translate = None
    /\ results = <<>>
    /\ results_scanned = <<>>
    /\ messages = <<>>

OutputIdle ==
    /\ fs = <<>>
    /\ fs_in = <<>>
    /\ out_text = None
    /\ result = "idle"
    /\ w_pc = "idle"
    /\ w_path = <<>>

SortIdle ==
    /\ s_pc = "idle"
    /\ sort_args = <<>>
    /\ locale_files = <<>>
    /\ entries = <<>>
    /\ entry = None
    /\ skipped = {}
    /\ sorted_to = <<>>

ParserIdle ==
    /\ p_pc = "idle"
    /\ p_s = <<>>
    /\ p_result = None

LocaleIdle ==
    /\ CURRENT_LOCALE = <<>>
    /\ default_locale = None
    /\ lazy_built = TRUE
    /\ locale_before = <<>>

\* the parts added for output, sort, the -t parser and the current locale
RestIdle == OutputIdle /\ SortIdle /\ ParserIdle /\ LocaleIdle

(***************************************************************************)
(* Bounds and input sets of the runtime lookup.                            *)
(***************************************************************************)
MaxLocaleLen == 3

Chars == {"a", "x", "-"}

SeqsUpTo(S, n) == UNION {[1..m -> S] : m \in 0..n}

\* "zh-Hant-CN-x-priv"
ExampleLocale ==
    <<"z","h","-","H","a","n","t","-","C","N","-","x","-","p","r","i","v">>

\* "a-a-a", "a-x-a", "a-a-x-x-a"
LongLocales ==
    { <<"a","-","a","-","a">>,
      <<"a","-","x","-","a">>,
      <<"a","-","a","-","x","-","x","-","a">>,
      ExampleLocale }

RequestLocales == SeqsUpTo(Chars, MaxLocaleLen) \cup LongLocales

\* the locales that have a table in the backend: "a", "a-a", "x"
TableLocales == { <<"a">>, <<"a","-","a">>, <<"x">> }

TableKeys == { <<"k">>, <<"h","i">> }

RequestKeys == TableKeys \cup { <<>> }

Values == { <<"v">>, <<"w">> }

\* the fallback = ... argument of i18n!: absent, one locale, or a list
FallbackDecls ==
    { None,
      Some(<< <<"x">> >>),
      Some(<< <<"x">>, <<"a">> >>),
      Some(<< <<"a">>, <<"x">> >>) }

(***************************************************************************)
(* Backend::translate of the static backend: the value stored for          *)
(* (locale, key), if any.                                                  *)
(***************************************************************************)
BackendTranslate(b, l, k) ==
    IF l \in DOMAIN b /\ k \in DOMAIN b[l] THEN Some(b[l][k]) ELSE None

(***************************************************************************)
(* str::rfind('-'): the 1-based position of the last '-', 0 when absent.   *)
(***************************************************************************)
Rfind(s, c) ==
    LET hits == {i \in 1..Len(s) : s[i] = c}
    IN  IF hits = {} THEN 0 ELSE CHOOSE i \in hits : \A j \in hits : j <= i

EndsWith(s, pat) ==
    /\ Len(s) >= Len(pat)
    /\ SubSeq(s, Len(s) - Len(pat) + 1, Len(s)) = pat

(***************************************************************************)
(* str::trim_end_matches(pat): the suffix pat removed as often as it       *)
(* matches.                                                                *)
(***************************************************************************)
RECURSIVE TrimEndMatches(_, _)
TrimEndMatches(s, pat) ==
    IF Len(pat) > 0 /\ EndsWith(s, pat)
    THEN TrimEndMatches(SubSeq(s, 1, Len(s) - Len(pat)), pat)
    ELSE s

(***************************************************************************)
(* _rust_i18n_lookup_fallback:                                             *)
(*   locale.rfind('-').map(|n| locale[..n].trim_end_matches("-x"))         *)
(***************************************************************************)
\* (variant without the trim of "-x")
LookupFallbackNoTrim(l) ==
    LET n == Rfind(l, "-")
    IN  IF n = 0 THEN None ELSE Some(SubSeq(l, 1, n - 1))

rust_i18n_lookup_fallback(l) ==
    LET n == Rfind(l, "-")
    IN  IF n = 0 THEN None
        ELSE Some(TrimEndMatches(SubSeq(l, 1, n - 1), <<"-", "x">>))

(***************************************************************************)
(* The while-let loop of _rust_i18n_try_translate (lines 388-394): walk    *)
(* the structural fallbacks of current_locale until one has the key.       *)
(* Returns the value found and the locales probed on the way.              *)
(***************************************************************************)
RECURSIVE FallbackLoop(_, _, _, _)
FallbackLoop(b, current_locale, k, seen) ==
    LET fb == rust_i18n_lookup_fallback(current_locale)
    IN  IF fb = None
        THEN [value |-> None, probed |-> seen]
        ELSE LET fallback_locale == fb[1]
                 value == BackendTranslate(b, fallback_locale, k)
             IN  IF value # None
                 THEN [value |-> value, probed |-> Append(seen, fallback_locale)]
                 ELSE FallbackLoop(b, fallback_locale, k, Append(seen, fallback_locale))

(***************************************************************************)
(* fallback.iter().find_map(|locale| BACKEND.translate(locale, key))       *)
(* (lines 396-398).                                                        *)
(***************************************************************************)
RECURSIVE FindMap(_, _, _, _)
FindMap(b, list, k, seen) ==
    IF list = <<>>
    THEN [value |-> None, probed |-> seen]
    ELSE LET value == BackendTranslate(b, Head(list), k)
         IN  IF value # None
             THEN [value |-> value, probed |-> Append(seen, Head(list))]
             ELSE FindMap(b, Tail(list), k, Append(seen, Head(list)))

DeclaredFallback(b, fb, k, seen) ==
    IF fb = None
    THEN [value |-> None, probed |-> seen]
    ELSE FindMap(b, fb[1], k, seen)

(***************************************************************************)
(* _rust_i18n_try_translate (lines 384-400).                               *)
(***************************************************************************)
\* (variant probing the declared fallbacks before the truncations)
TryTranslateFallbackFirst(b, fb, l, k) ==
    LET exact == BackendTranslate(b, l, k)
    IN  IF exact # None
        THEN [value |-> exact, probed |-> <<l>>]
        ELSE LET decl == DeclaredFallback(b, fb, k, <<l>>)
             IN  IF decl.value # None
                 THEN decl
                 ELSE FallbackLoop(b, l, k, decl.probed)

rust_i18n_try_translate(b, fb, l, k) ==
    LET exact == BackendTranslate(b, l, k)
    IN  IF exact # None
        THEN [value |-> exact, probed |-> <<l>>]
        ELSE LET loop == FallbackLoop(b, l, k, <<l>>)
             IN  IF loop.value # None
                 THEN loop
                 ELSE DeclaredFallback(b, fb, k, loop.probed)

(***************************************************************************)
(* _rust_i18n_translate (lines 370-378): the lookup, or                    *)
(* format!("{}.{}", locale, key), or key for the empty locale.             *)
(***************************************************************************)
\* (variant leaving a missing translation blank)
TranslateDefaultBlank(found, l, k) ==
    IF found # None THEN found[1] ELSE <<>>

TranslateDefault(found, l, k) ==
    IF found # None
    THEN found[1]
    ELSE IF l = <<>> THEN k ELSE l \o <<".">> \o k

rust_i18n_translate(b, fb, l, k) ==
    TranslateDefault(rust_i18n_try_translate(b, fb, l, k).value, l, k)

(***************************************************************************)
(* State machine of the runtime lookup.  The backend and the declared      *)
(* fallback list are fixed when the i18n! macro is expanded; afterwards    *)
(* the two generated functions are called with arbitrary arguments.        *)
(***************************************************************************)
\* a locale's table holds at most one of the keys
LocaleTables ==
    UNION {[ks -> Values] : ks \in {{}} \cup {{k} : k \in TableKeys}}

Backends == [TableLocales -> LocaleTables]

InitLookup ==
    /\ backend \in Backends
    /\ fallback \in FallbackDecls
    /\ op = "none"
    /\ locale = <<>>
    /\ key = <<>>
    /\ try_result = None
    /\ tr_result = <<>>
    /\ probed = <<>>
    /\ FilterIdle
    /\ ExportIdle
    /\ ExtractIdle
    /\ OutputIdle /\ SortIdle /\ ParserIdle /\ LocaleIdle

CallTryTranslate ==
    /\ op = "none"
    /\ \E l \in RequestLocales, k \in RequestKeys :
        LET r == rust_i18n_try_translate(backend, fallback, l, k)
        IN  /\ op' = "try_translate"
            /\ locale' = l
            /\ key' = k
            /\ try_result' = r.value
            /\ probed' = r.probed
            /\ tr_result' = <<>>
            /\ UNCHANGED <<backend, fallback, notLookup>>

CallTranslate ==
    /\ op = "none"
    /\ \E l \in RequestLocales, k \in RequestKeys :
        LET r == rust_i18n_try_translate(backend, fallback, l, k)
        IN  /\ op' = "translate"
            /\ locale' = l
            /\ key' = k
            /\ try_result' = r.value
            /\ probed' = r.probed
            /\ tr_result' = rust_i18n_translate(backend, fallback, l, k)
            /\ UNCHANGED <<backend, fallback, notLookup>>

\* the caller takes the result; the next call may follow
Return ==
    /\ op # "none"
    /\ op' = "none"
    /\ locale' = <<>>
    /\ key' = <<>>
    /\ try_result' = None
    /\ tr_result' = <<>>
    /\ probed' = <<>>
    /\ UNCHANGED <<backend, fallback, notLookup>>

NextLookup ==
    \/ CallTryTranslate
    \/ CallTranslate
    \/ Return

SpecLookup == InitLookup /\ [][NextLookup]_vars

(***************************************************************************)
(* The candidate chain as section 4.2 and the claims describe it, at the   *)
(* level of '-'-delimited subtags (the code works on characters).          *)
(***************************************************************************)
FirstDash(s) ==
    LET hits == {i \in 1..Len(s) : s[i] = "-"}
    IN  IF hits = {} THEN 0 ELSE CHOOSE i \in hits : \A j \in hits : i <= j

RECURSIVE SplitTags(_)
SplitTags(s) ==
    LET n == FirstDash(s)
    IN  IF n = 0 THEN <<s>>
        ELSE <<SubSeq(s, 1, n - 1)>> \o SplitTags(SubSeq(s, n + 1, Len(s)))

RECURSIVE JoinTags(_)
JoinTags(tags) ==
    IF Len(tags) = 1 THEN tags[1]
    ELSE tags[1] \o <<"-">> \o JoinTags(Tail(tags))

DropLast(q) == SubSeq(q, 1, Len(q) - 1)

RECURSIVE StripPrivateUse(_)
StripPrivateUse(tags) ==
    IF Len(tags) > 1 /\ tags[Len(tags)] = <<"x">>
    THEN StripPrivateUse(DropLast(tags))
    ELSE tags

RECURSIVE StructuralChain(_)
StructuralChain(l) ==
    LET tags == SplitTags(l)
    IN  IF Len(tags) <= 1 THEN <<>>
        ELSE LET next == JoinTags(StripPrivateUse(DropLast(tags)))
             IN  <<next>> \o StructuralChain(next)

DeclaredList(fb) == IF fb = None THEN <<>> ELSE fb[1]

Candidates(l, fb) == <<l>> \o StructuralChain(l) \o DeclaredList(fb)

FirstHit(b, cands, k) ==
    LET hits == {i \in 1..Len(cands) : BackendTranslate(b, cands[i], k) # None}
    IN  IF hits = {} THEN None
        ELSE BackendTranslate(b, cands[CHOOSE i \in hits : \A j \in hits : i <= j], k)

IsPrefix(p, q) == Len(p) <= Len(q) /\ SubSeq(q, 1, Len(p)) = p

Called == op \in {"try_translate", "translate"}

\* C1: the lookup returns the translation of the first candidate that has
\* the key, the candidates being the requested locale, then its structural
\* truncations from longest to shortest, then the declared fallback locales
\* in declared order; it returns None exactly when no candidate has the key.
C1_FirstCandidateWithKey ==
    Called =>
        /\ try_result = FirstHit(backend, Candidates(locale, fallback), key)
        /\ (try_result = None) <=>
               (\A i \in 1..Len(Candidates(locale, fallback)) :
                    BackendTranslate(backend, Candidates(locale, fallback)[i], key) = None)

\* C1 witness: the exact locale and the longest truncation lack the key, a
\* shorter truncation and a declared fallback locale both have it with
\* different values, and the truncation's value is returned.
C1_Witness ==
    /\ op = "try_translate"
    /\ Len(StructuralChain(locale)) >= 2
    /\ BackendTranslate(backend, locale, key) = None
    /\ BackendTranslate(backend, StructuralChain(locale)[1], key) = None
    /\ BackendTranslate(backend, StructuralChain(locale)[2], key) # None
    /\ fallback # None
    /\ BackendTranslate(backend, fallback[1][1], key) # None
    /\ BackendTranslate(backend, fallback[1][1], key)
           # BackendTranslate(backend, StructuralChain(locale)[2], key)
    /\ try_result = BackendTranslate(backend, StructuralChain(locale)[2], key)

\* C2: the locales probed are the requested locale followed by the chain
\* obtained by repeatedly removing the last subtag and then any trailing
\* "-x"; when nothing is found the whole chain has been walked and its last
\* member has no '-'; for "zh-Hant-CN-x-priv" the chain starts with
\* "zh-Hant-CN-x-priv", "zh-Hant-CN", "zh-Hant", "zh".
C2_StructuralChain ==
    Called =>
        LET chain == <<locale>> \o StructuralChain(locale)
        IN  /\ IsPrefix(probed, chain) \/ IsPrefix(chain, probed)
            /\ try_result = None =>
                   /\ IsPrefix(chain, probed)
                   /\ FirstDash(probed[Len(chain)]) = 0
            /\ (locale = ExampleLocale /\ try_result = None) =>
                   SubSeq(probed, 1, 4) =
                       << ExampleLocale,
                          <<"z","h","-","H","a","n","t","-","C","N">>,
                          <<"z","h","-","H","a","n","t">>,
                          <<"z","h">> >>

\* C2 witness: the lookup of "zh-Hant-CN-x-priv" found nothing and walked
\* the four candidates.
C2_Witness ==
    /\ Called
    /\ locale = ExampleLocale
    /\ try_result = None
    /\ Len(probed) >= 4
    /\ probed[2] = <<"z","h","-","H","a","n","t","-","C","N">>
    /\ probed[4] = <<"z","h">>

\* C3: for the empty requested locale no locale other than the (empty)
\* requested one is consulted, not even a declared fallback locale; the
\* lookup returns None and the lookup-with-default returns the key.
C3_EmptyLocaleEmptyChain ==
    (Called /\ locale = <<>>) =>
        /\ \A i \in 1..Len(probed) : probed[i] = <<>>
        /\ try_result = None
        /\ op = "translate" => tr_result = key

\* C4: the lookup-with-default returns the translation the lookup finds;
\* with none it returns "<locale>.<key>" for a non-empty locale and the key
\* for the empty locale, hence never an empty string for a non-empty key
\* without translation.
C4_TranslateOrDefault ==
    op = "translate" =>
        LET found == FirstHit(backend, Candidates(locale, fallback), key)
        IN  /\ found # None => tr_result = found[1]
            /\ (found = None /\ locale # <<>>) =>
                   /\ Len(tr_result) = Len(locale) + 1 + Len(key)
                   /\ SubSeq(tr_result, 1, Len(locale)) = locale
                   /\ tr_result[Len(locale) + 1] = "."
                   /\ SubSeq(tr_result, Len(locale) + 2, Len(tr_result)) = key
            /\ (found = None /\ locale = <<>>) => tr_result = key
            /\ (found = None /\ key # <<>>) => tr_result # <<>>

\* C4 witness: a non-empty key without translation under a non-empty
\* locale was given its placeholder.
C4_Witness ==
    /\ op = "translate"
    /\ try_result = None
    /\ locale = <<"a", "-", "a">>
    /\ key = <<"h", "i">>
    /\ tr_result = <<"a", "-", "a", ".", "h", "i">>

(***************************************************************************)
(* cargo i18n export: the locale filter (crates/cli/src/main.rs).          *)
(*                                                                         *)
(* Locale identifiers and translation keys of the command line tool are    *)
(* compared and sorted as whole strings, never inspected: they are plain   *)
(* strings here, ordered as String's Ord orders them.  A -l token is the   *)
(* pair <<prefix, locale>> of its first character, when that is '+' or     *)
(* '!', and the rest.                                                      *)
(***************************************************************************)
MaxTokens == 3

\* every string the tool sorts, in ascending (byte-wise) order
StrOrder == <<"bye", "de", "en", "es", "fr", "hello">>

StrRank(x) == CHOOSE i \in 1..Len(StrOrder) : StrOrder[i] = x

StrLess(x, y) == StrRank(x) < StrRank(y)

LocaleNames == {"de", "en", "es", "fr"}

TokenLocales == {"de", "en"}

Tokens == {"", "+", "!"} \X TokenLocales

TokenLists == SeqsUpTo(Tokens, MaxTokens)

\* s.starts_with('+') || s.starts_with('!')
IsModifier(t) == t[1] \in {"+", "!"}

\* locales.iter().partition(...) (lines 220-222)
ExplicitLocales(tokens) ==
    LET Bare(t) == ~IsModifier(t) IN SelectSeq(tokens, Bare)

Modifiers(tokens) == SelectSeq(tokens, IsModifier)

InList(q, x) == \E i \in 1..Len(q) : q[i] = x

\* (variant that takes the explicit locales as the new set)
RetainExplicitReplace(avail, tokens) ==
    LET explicit_locales == ExplicitLocales(tokens)
    IN  IF explicit_locales # <<>>
        THEN {explicit_locales[i][2] : i \in 1..Len(explicit_locales)}
        ELSE avail

\* if !explicit_locales.is_empty() { available_locales.retain(...) }
\* (lines 224-226)
RetainExplicit(avail, tokens) ==
    LET explicit_locales == ExplicitLocales(tokens)
    IN  IF explicit_locales # <<>>
        THEN {s \in avail : InList(explicit_locales, <<"", s>>)}
        ELSE avail

\* one turn of the for loop over the modifiers (lines 228-239)
ApplyModifier(avail, t) ==
    LET prefix == t[1]
        name == t[2]
    IN  CASE prefix = "!" -> avail \ {name}
          [] prefix = "+" -> avail \cup {name}
          [] OTHER -> avail

RECURSIVE ApplyModifiers(_, _)
ApplyModifiers(avail, mods) ==
    IF mods = <<>> THEN avail
    ELSE ApplyModifiers(ApplyModifier(avail, Head(mods)), Tail(mods))

\* filter_locales as a whole (lines 219-240), as i18n_export calls it
filter_locales(avail, tokens) ==
    ApplyModifiers(RetainExplicit(avail, tokens), Modifiers(tokens))

InitFilter ==
    /\ LookupIdle
    /\ ExportIdle
    /\ ExtractIdle
    /\ RestIdle
    /\ f_pc = "entry"
    /\ available_in \in SUBSET LocaleNames
    /\ available_locales = available_in
    /\ locales \in TokenLists
    /\ modifier_i = 0

\* lines 220-226: partition, then narrow to the explicit locales
FilterRetain ==
    /\ f_pc = "entry"
    /\ available_locales' = RetainExplicit(available_locales, locales)
    /\ modifier_i' = 1
    /\ f_pc' = "modifiers"
    /\ UNCHANGED <<available_in, locales, notFilter>>

\* lines 228-239: the next modifier
FilterModifier ==
    /\ f_pc = "modifiers"
    /\ modifier_i <= Len(Modifiers(locales))
    /\ available_locales' =
           ApplyModifier(available_locales, Modifiers(locales)[modifier_i])
    /\ modifier_i' = modifier_i + 1
    /\ UNCHANGED <<f_pc, available_in, locales, notFilter>>

\* line 240: the loop is over
FilterReturn ==
    /\ f_pc = "modifiers"
    /\ modifier_i > Len(Modifiers(locales))
    /\ f_pc' = "done"
    /\ UNCHANGED <<available_locales, available_in, locales, modifier_i, notFilter>>

NextFilter ==
    \/ FilterRetain
    \/ FilterModifier
    \/ FilterReturn

SpecFilter == InitFilter /\ [][NextFilter]_vars

(***************************************************************************)
(* Claims about the locale filter.                                         *)
(***************************************************************************)
BareNames(tokens) == {tokens[i][2] : i \in {j \in 1..Len(tokens) : tokens[j][1] = ""}}

PlusNames(tokens) == {tokens[i][2] : i \in {j \in 1..Len(tokens) : tokens[j][1] = "+"}}

BangNames(tokens) == {tokens[i][2] : i \in {j \in 1..Len(tokens) : tokens[j][1] = "!"}}

AfterRetain == f_pc = "modifiers" /\ modifier_i = 1

\* C5 as stated: with a bare token present, the set after the
\* explicit-include narrowing is exactly the set of bare tokens, whatever
\* locales were available.
C5_NarrowedIsExactlyBareTokens ==
    (AfterRetain /\ BareNames(locales) # {}) =>
        available_locales = BareNames(locales)

\* C5 as amended: with a bare token present, the set after the narrowing is
\* the set of the bare tokens that name an available locale (of store or
\* config); a bare token that names no available locale adds nothing.
\* Store locales {en, es, fr} with filter ["en", "+de"] end as {en, de}.
C5_NarrowedIsAvailableBareTokens ==
    /\ (AfterRetain /\ BareNames(locales) # {}) =>
           available_locales = available_in \cap BareNames(locales)
    /\ (f_pc = "done" /\ available_in = {"en", "es", "fr"}
          /\ locales = << <<"", "en">>, <<"+", "de">> >>) =>
           available_locales = {"en", "de"}

\* C5 witness: the filter ["en", "+de"] has run over {en, es, fr}.
C5_Witness ==
    /\ f_pc = "done"
    /\ available_in = {"en", "es", "fr"}
    /\ locales = << <<"", "en">>, <<"+", "de">> >>
    /\ available_locales = {"de", "en"}

\* C6: excludes are applied after all force-includes: the result is the
\* narrowed set plus every '+' locale minus every '!' locale, so it does not
\* depend on the order of the '+' and '!' tokens and a locale named by both
\* is absent.
C6_ExcludesAfterIncludes ==
    f_pc = "done" =>
        LET narrowed == IF BareNames(locales) = {} THEN available_in
                        ELSE available_in \cap BareNames(locales)
        IN  available_locales =
                (narrowed \cup PlusNames(locales)) \ BangNames(locales)

(***************************************************************************)
(* cargo i18n export: the locale x key matrix and its CSV form             *)
(* (crates/cli/src/main.rs, i18n_export, convert_csv_text).                *)
(***************************************************************************)
RECURSIVE SortSet(_)
\* Vec::sort of the strings of a set: ascending
SortSet(S) ==
    IF S = {} THEN <<>>
    ELSE LET m == CHOOSE x \in S : \A y \in S : ~StrLess(y, x)
         IN  <<m>> \o SortSet(S \ {m})

\* HashMap::get(locale).and_then(|m| m.get(key))
StoreGet(trs, l, k) ==
    IF l \in DOMAIN trs /\ k \in DOMAIN trs[l] THEN Some(trs[l][k]) ELSE None

\* IndexMap::insert: a new key is appended, a present key keeps its place
IndexMapInsert(m, k, v) ==
    IF \E i \in 1..Len(m) : m[i][1] = k
    THEN [i \in 1..Len(m) |-> IF m[i][1] = k THEN <<k, v>> ELSE m[i]]
    ELSE Append(m, <<k, v>>)

\* (variant that fills from the default locale under either policy)
CellTextAlwaysDefault(trs, conf, missed, l, k) ==
    LET msg == StoreGet(trs, l, k)
        dflt == StoreGet(trs, conf.default_locale, k)
    IN  IF msg # None THEN msg[1]
        ELSE IF dflt # None THEN dflt[1] ELSE ""

\* the match on (msg, args.missed) (lines 279-288)
CellText(trs, conf, missed, l, k) ==
    LET msg == StoreGet(trs, l, k)
        dflt == StoreGet(trs, conf.default_locale, k)
    IN  IF msg # None THEN msg[1]
        ELSE IF missed = "default"
             THEN (IF dflt # None THEN dflt[1] ELSE "")
             ELSE ""

RECURSIVE RowObject(_, _, _, _, _, _)
\* the inner for loop over sorted_locales (lines 277-290)
RowObject(trs, conf, missed, k, locs, obj) ==
    IF locs = <<>> THEN obj
    ELSE RowObject(trs, conf, missed, k, Tail(locs),
                   IndexMapInsert(obj, Head(locs),
                                  CellText(trs, conf, missed, Head(locs), k)))

RECURSIVE BuildRows(_, _, _, _, _, _)
\* the outer for loop over sorted_keys (lines 275-292)
BuildRows(trs, conf, missed, ks, locs, acc) ==
    IF ks = <<>> THEN acc
    ELSE BuildRows(trs, conf, missed, Tail(ks), locs,
                   IndexMapInsert(acc, Head(ks),
                                  RowObject(trs, conf, missed, Head(ks), locs, <<>>)))

\* the keys of an IndexMap, in its order
MapKeys(m) == [i \in 1..Len(m) |-> m[i][1]]

\* the values of an IndexMap, in its order
MapValues(m) == [i \in 1..Len(m) |-> m[i][2]]

\* convert_csv_text (lines 309-325): the records handed to the csv writer
convert_csv_text(trs) ==
    LET header == <<"key">> \o (IF Len(trs) > 0 THEN MapKeys(trs[1][2]) ELSE <<>>)
    IN  <<header>> \o [i \in 1..Len(trs) |-> <<trs[i][1]>> \o MapValues(trs[i][2])]

StoreLocales == {"en", "es"}

StoreKeys == {"bye", "hello"}

StoreTexts == {"Hello", "Hola"}

StoreTables == UNION {[ks -> StoreTexts] : ks \in SUBSET StoreKeys}

Stores == UNION {[ls -> StoreTables] : ls \in SUBSET StoreLocales}

Configs ==
    [available_locales : {{}, {"en"}, {"es", "fr"}}, default_locale : {"en", "fr"}]

ExportFilters ==
    { <<>>,
      << <<"", "en">>, <<"+", "de">> >>,
      << <<"!", "en">> >>,
      << <<"", "es">> >> }

ExportArgs == [locales : ExportFilters, missed : {"default", "empty"}]

InitExport ==
    /\ LookupIdle
    /\ FilterIdle
    /\ ExtractIdle
    /\ RestIdle
    /\ e_pc = "loaded"
    /\ tmp_trs \in Stores
    /\ config \in Configs
    /\ args \in ExportArgs
    /\ sorted_locales = <<>>
    /\ sorted_keys = <<>>
    /\ new_trs = <<>>
    /\ csv = <<>>

\* lines 259-292: the exported locales, the keys, the matrix
ExportBuild ==
    /\ e_pc = "loaded"
    /\ LET available == config.available_locales \cup DOMAIN tmp_trs
           locs == SortSet(filter_locales(available, args.locales))
           ks == SortSet(UNION {DOMAIN tmp_trs[l] : l \in DOMAIN tmp_trs})
       IN  /\ sorted_locales' = locs
           /\ sorted_keys' = ks
           /\ new_trs' = BuildRows(tmp_trs, config, args.missed, ks, locs, <<>>)
    /\ e_pc' = "built"
    /\ UNCHANGED <<tmp_trs, config, args, csv, notExport>>

\* line 300 with format "csv": convert_text -> convert_csv_text
ExportConvertCsv ==
    /\ e_pc = "built"
    /\ csv' = convert_csv_text(new_trs)
    /\ e_pc' = "converted"
    /\ UNCHANGED <<tmp_trs, config, args, sorted_locales, sorted_keys, new_trs, notExport>>

NextExport ==
    \/ ExportBuild
    \/ ExportConvertCsv

SpecExport == InitExport /\ [][NextExport]_vars

(***************************************************************************)
(* Claims about the export matrix.                                         *)
(***************************************************************************)
Built == e_pc \in {"built", "converted"}

HasText(l, k) == l \in DOMAIN tmp_trs /\ k \in DOMAIN tmp_trs[l]

AllKeys == UNION {DOMAIN tmp_trs[l] : l \in DOMAIN tmp_trs}

Exported == {sorted_locales[i] : i \in 1..Len(sorted_locales)}

\* the text the matrix holds for key k and locale l, as a set (one element
\* when there is exactly one such cell)
Cells(k, l) ==
    {new_trs[i][2][j][2] :
        <<i, j>> \in {p \in (1..Len(new_trs)) \X (1..Len(sorted_locales)) :
                         /\ new_trs[p[1]][1] = k
                         /\ p[2] <= Len(new_trs[p[1]][2])
                         /\ new_trs[p[1]][2][p[2]][1] = l}}

\* C7: for every exported locale L and key K the cell is L's own
\* translation when the store has one; otherwise under 'default' the
\* default locale's translation, or "" when that is absent too; otherwise
\* under 'empty' it is "".
C7_CellResolution ==
    Built =>
        \A k \in AllKeys : \A l \in Exported :
            Cells(k, l) =
                { IF HasText(l, k) THEN tmp_trs[l][k]
                  ELSE IF args.missed = "default"
                            /\ HasText(config.default_locale, k)
                       THEN tmp_trs[config.default_locale][k]
                       ELSE "" }

\* C7 witness: hello has en = "Hello" and no es entry, default_locale = en;
\* the es cell is "" under policy 'empty'.
C7_Witness ==
    /\ Built
    /\ args.missed = "empty"
    /\ config.default_locale = "en"
    /\ HasText("en", "hello") /\ tmp_trs["en"]["hello"] = "Hello"
    /\ ~HasText("es", "hello")
    /\ "es" \in Exported
    /\ Cells("hello", "es") = {""}

\* the same store under policy 'default': the es cell is "Hello"
C7_WitnessDefault ==
    /\ Built
    /\ args.missed = "default"
    /\ config.default_locale = "en"
    /\ HasText("en", "hello") /\ tmp_trs["en"]["hello"] = "Hello"
    /\ ~HasText("es", "hello")
    /\ "es" \in Exported
    /\ Cells("hello", "es") = {"Hello"}

\* C8: the CSV has a header 'key' followed by every exported locale in
\* ascending order, then one row per key of the union of the store's keys
\* in ascending order, each with one cell per exported locale.
C8_CsvShape ==
    e_pc = "converted" =>
        /\ Len(csv) = 1 + Cardinality(AllKeys)
        /\ csv[1] = <<"key">> \o sorted_locales
        /\ \A i \in 1..Len(sorted_locales) : \A j \in 1..Len(sorted_locales) :
               i < j => StrLess(sorted_locales[i], sorted_locales[j])
        /\ \A i \in 2..Len(csv) :
               /\ Len(csv[i]) = 1 + Len(sorted_locales)
               /\ csv[i][1] \in AllKeys
               /\ \A j \in 1..Len(sorted_locales) :
                      csv[i][j + 1] \in Cells(csv[i][1], sorted_locales[j])
               /\ \A j \in 2..Len(csv) : i < j => StrLess(csv[i][1], csv[j][1])

(***************************************************************************)
(* cargo i18n (extract): the message table (crates/cli/src/main.rs, i18n,  *)
(* add_translations).  extractor::extract and MinifyKey::minify_key live   *)
(* in other crates of the repository; they follow sections 4.1 and 4.3 of  *)
(* the specification.                                                      *)
(***************************************************************************)
MaxFileTexts == 2

\* the literal texts of t! calls found in the sources
ScanTexts == {"Hi", "Hello, world!", "Hello, there!"}

\* texts no longer than minify_key_thresh: they are their own key
ShortTexts == {"Hi", "Good"}

\* prefix + hash of the longer texts; two of them collide
HashedKey ==
    [t \in {"Hello, world!", "Hello, there!", "Howdy, world!"} |->
        CASE t = "Hello, world!" -> "t_1"
          [] t = "Hello, there!" -> "t_2"
          [] t = "Howdy, world!" -> "t_1"]

\* MinifyKey::minify_key (section 4.1)
MinifyKey(text) == IF text \in ShortTexts THEN text ELSE HashedKey[text]

\* the key under which a text is filed (lines 177-184)
KeyOf(c, text) == IF c.minify_key THEN MinifyKey(text) ELSE text

\* Message { key, index, minify_key, locations }: key holds the text
NewMessage(text, index, c, locs) ==
    [key |-> text, index |-> index, minify_key |-> c.minify_key, locations |-> locs]

\* extractor::extract for one literal (section 4.3): a present key gets the
\* location, a new key a Message with index = current table size
ExtractText(res, c, text, loc) ==
    LET k == KeyOf(c, text)
    IN  IF k \in DOMAIN res
        THEN [res EXCEPT ![k].locations = Append(@, loc)]
        ELSE res @@ (k :> NewMessage(text, Cardinality(DOMAIN res), c, <<loc>>))

RECURSIVE ExtractFile(_, _, _, _, _)
\* extractor::extract for one file: its literals in source order
ExtractFile(res, c, path, texts, i) ==
    IF i > Len(texts) THEN res
    ELSE ExtractFile(ExtractText(res, c, texts[i], <<path, i>>), c, path, texts, i + 1)

\* (variant with HashMap::insert: a present key is overwritten)
EntryOverwrite(res, k, m) ==
    [x \in DOMAIN res \cup {k} |-> IF x = k THEN m ELSE res[x]]

\* results.entry(key).or_insert(message) (lines 185-190)
EntryOrInsert(res, k, m) ==
    IF k \in DOMAIN res THEN res ELSE res @@ (k :> m)

RECURSIVE add_translations(_, _, _)
\* add_translations (lines 162-192)
add_translations(list, res, c) ==
    IF list = <<>> THEN res
    ELSE LET item == Head(list)
             index == Cardinality(DOMAIN res)
             k == KeyOf(c, item[1])
         IN  add_translations(Tail(list),
                              EntryOrInsert(res, k, NewMessage(item[2], index, c, <<>>)),
                              c)

RECURSIVE SortByIndex(_)
\* results.iter().collect() and sort_by_key(|(_k, m)| m.index)
\* (lines 209-210); the indexes of a table are distinct
SortByIndex(res) ==
    IF DOMAIN res = {} THEN <<>>
    ELSE LET k == CHOOSE x \in DOMAIN res :
                      \A y \in DOMAIN res : res[x].index <= res[y].index
         IN  <<<<k, res[k]>>>> \o SortByIndex([x \in DOMAIN res \ {k} |-> res[x]])

Paths == {"a.rs", "b.rs"}

SourceTrees == [Paths -> SeqsUpTo(ScanTexts, MaxFileTexts)]

\* the -t option: absent, or (text, translation) pairs
TranslateArgs ==
    { None,
      Some(<< <<"Hi", "Hallo">> >>),
      Some(<< <<"Good", "Gut">>, <<"Hi", "Hallo">> >>),
      Some(<< <<"Howdy, world!", "Howdy">>, <<"Good", "Gut">> >>),
      Some(<< <<"Good", "Gut">>, <<"Good", "Besser">> >>) }

InitExtract ==
    /\ LookupIdle
    /\ FilterIdle
    /\ ExportIdle
    /\ RestIdle
    /\ x_pc = "scan"
    /\ sources \in SourceTrees
    /\ processed = <<>>
    /\ cfg \in [minify_key : BOOLEAN]
    /\ translate \in TranslateArgs
    /\ results = <<>>
    /\ results_scanned = <<>>
    /\ messages = <<>>

\* lines 201-203: iter_crate hands over the next file, in the walker's order
ExtractNextFile ==
    /\ x_pc = "scan"
    /\ \E path \in Paths \ {processed[i] : i \in 1..Len(processed)} :
           /\ results' = ExtractFile(results, cfg, path, sources[path], 1)
           /\ processed' = Append(processed, path)
    /\ UNCHANGED <<x_pc, sources, cfg, translate, results_scanned, messages, notExtract>>

\* lines 205-207: the scan is over; the -t entries are added
AddTranslations ==
    /\ x_pc = "scan"
    /\ Len(processed) = Cardinality(Paths)
    /\ results_scanned' = results
    /\ results' = IF translate # None
                  THEN add_translations(translate[1], results, cfg)
                  ELSE results
    /\ x_pc' = "added"
    /\ UNCHANGED <<sources, processed, cfg, translate, messages, notExtract>>

\* lines 209-214: the messages in index order go to the generator
Generate ==
    /\ x_pc = "added"
    /\ messages' = SortByIndex(results)
    /\ x_pc' = "done"
    /\ UNCHANGED <<sources, processed, cfg, translate, results, results_scanned, notExtract>>

NextExtract ==
    \/ ExtractNextFile
    \/ AddTranslations
    \/ Generate

SpecExtract == InitExtract /\ [][NextExtract]_vars

(***************************************************************************)
(* Claims about the message table.                                         *)
(***************************************************************************)
\* the indexes of the table are 0 .. size-1, each once
IndexesDense ==
    x_pc # "idle" =>
        /\ \A k \in DOMAIN results : results[k].index \in 0..(Cardinality(DOMAIN results) - 1)
        /\ \A k1 \in DOMAIN results : \A k2 \in DOMAIN results :
               k1 # k2 => results[k1].index # results[k2].index

\* the keys of the -t entries, in the order supplied, first mention only
RECURSIVE ManualKeys(_, _)
ManualKeys(list, seen) ==
    IF list = <<>> THEN <<>>
    ELSE LET k == KeyOf(cfg, Head(list)[1])
         IN  IF k \in seen THEN ManualKeys(Tail(list), seen)
             ELSE <<k>> \o ManualKeys(Tail(list), seen \cup {k})

TranslateList == IF translate = None THEN <<>> ELSE translate[1]

\* C9: add_translations changes no key, value or index of a message that
\* was in the table, gives every message it inserts an index above all
\* indexes present before, and so the index-ordered output is the scanned
\* messages in their order followed by the manual entries in the order
\* supplied.
C9_ManualEntriesFollow ==
    x_pc \in {"added", "done"} =>
        /\ \A k \in DOMAIN results_scanned :
               k \in DOMAIN results /\ results[k] = results_scanned[k]
        /\ \A k \in DOMAIN results \ DOMAIN results_scanned :
               \A old \in DOMAIN results_scanned :
                   results[k].index > results_scanned[old].index
        /\ x_pc = "done" =>
               MapKeys(messages) =
                   MapKeys(SortByIndex(results_scanned))
                       \o ManualKeys(TranslateList, DOMAIN results_scanned)

\* C9 witness: the scan found messages; of two -t entries one was new and
\* one named a key already there, whose text differs from the translation
\* supplied.
C9_Witness ==
    /\ x_pc = "done"
    /\ translate = Some(<< <<"Good", "Gut">>, <<"Hi", "Hallo">> >>)
    /\ Cardinality(DOMAIN results_scanned) >= 2
    /\ "Hi" \in DOMAIN results_scanned
    /\ results["Hi"].key = "Hi"
    /\ "Good" \in DOMAIN results \ DOMAIN results_scanned
    /\ messages[Len(messages)][1] = "Good"

\* the (key, text) pairs of a message list, in its order
KeyTexts(ms) == [i \in 1..Len(ms) |-> <<ms[i][1], ms[i][2].key>>]

RECURSIVE ExtractAll(_, _)
\* the table after the files are processed in the given order
ExtractAll(order, res) ==
    IF order = <<>> THEN res
    ELSE ExtractAll(Tail(order), ExtractFile(res, cfg, Head(order), sources[Head(order)], 1))

OutputFor(order) ==
    LET scanned == ExtractAll(order, <<>>)
    IN  SortByIndex(IF translate # None
                    THEN add_translations(translate[1], scanned, cfg)
                    ELSE scanned)

\* C10: whatever the order in which the files are processed, the
\* index-ordered message list has the same keys and texts in the same order.
C10_FileOrderIndependent ==
    x_pc = "done" =>
        \A order \in {<<"a.rs", "b.rs">>, <<"b.rs", "a.rs">>} :
            KeyTexts(messages) = KeyTexts(OutputFor(order))

(***************************************************************************)
(* Output: the tail of i18n_export (lines 294-302), convert_text           *)
(* (lines 327-356) and write_file (lines 377-381).                         *)
(*                                                                         *)
(* A path is the sequence of the pieces of its name, "." and "/" being     *)
(* pieces of their own.  A file's content is a sequence of pieces too:     *)
(* the records of a csv text, the members of a serialized value.  The      *)
(* file system is a function from paths to Option<content>; a path that    *)
(* is not in its domain, or maps to None, does not exist.                  *)
(***************************************************************************)
FileAt(f, p) == IF p \in DOMAIN f THEN f[p] ELSE None

\* the largest number of a finite set of naturals
Greatest(S) == CHOOSE x \in S : \A y \in S : y <= x

\* the index of the last "/" of p, 0 when it has none: the file name of p
\* starts after it
LastSlash(p) == Greatest({0} \cup {i \in 1..Len(p) : p[i] = "/"})

\* the index of the last "." of the file name of p, 0 when it has none
LastDot(p) == Greatest({0} \cup {i \in (LastSlash(p) + 1)..Len(p) : p[i] = "."})

\* Path::extension (lines 295, 428): what follows the last "." of the file
\* name; None when the name has no "." or only a leading one
extension(p) ==
    LET i == LastDot(p)
    IN  IF i = 0 \/ i = LastSlash(p) + 1 THEN None
        ELSE IF i = Len(p) THEN Some("")
        ELSE Some(p[i + 1])

\* lines 335-344: the members of the serde_json value, "_version" first
ValueMembers(trs) ==
    << <<"_version", 2>> >> \o [i \in 1..Len(trs) |-> <<trs[i][1], trs[i][2]>>]

\* the serializers called at lines 347, 349 and 353: each member rendered
\* in the format's syntax; the yaml one opens with the document marker
Serialize(format, members) ==
    (IF format = "yaml" THEN << <<"yaml", <<"---">> >> >> ELSE <<>>)
        \o [i \in 1..Len(members) |-> <<format, members[i]>>]

\* text.trim_start_matches("---") (line 351)
RECURSIVE TrimStartMarker(_)
TrimStartMarker(t) ==
    IF Len(t) > 0 /\ t[1] = <<"yaml", <<"---">> >> THEN TrimStartMarker(Tail(t)) ELSE t

\* a convert_text that writes json when it does not know the format
ConvertTextDefaultJson(trs, format) ==
    IF format = "csv" THEN Some(convert_csv_text(trs))
    ELSE IF format \in {"yaml", "yml"}
    THEN Some(TrimStartMarker(Serialize("yaml", ValueMembers(trs))))
    ELSE IF format = "toml" THEN Some(Serialize("toml", ValueMembers(trs)))
    ELSE Some(Serialize("json", ValueMembers(trs)))

\* convert_text (lines 327-356): Some(text), or None for its Err
convert_text(trs, format) ==
    IF format = "csv" THEN Some(convert_csv_text(trs))
    ELSE IF format = "json" THEN Some(Serialize("json", ValueMembers(trs)))
    ELSE IF format \in {"yaml", "yml"}
    THEN Some(TrimStartMarker(Serialize("yaml", ValueMembers(trs))))
    ELSE IF format = "toml" THEN Some(Serialize("toml", ValueMembers(trs)))
    ELSE None

\* the messages of the errors the tail of i18n_export returns
ErrNoExtension == "unexpected file format"

ErrFormat == "unexpected file format: {}"

ErrWrite == "export to {} failed: {}"

OutputExtensions == {"csv", "json", "yaml", "yml", "toml", "txt", "CSV"}

\* args.output: no extension, a leading dot only, an empty extension, and
\* one name for each extension
OutputPaths ==
    {<<"out">>, <<".", "csv">>, <<"out", ".">>}
        \cup {<<"out", ".", e>> : e \in OutputExtensions}

\* what the target holds before the command: nothing, or an earlier export
OldContents == {None, Some(<< <<"old">> >>)}

OutputArgs == [locales : {<<>>}, missed : {"default", "empty"}, output : OutputPaths]

InitOutput ==
    /\ LookupIdle
    /\ FilterIdle
    /\ ExtractIdle
    /\ SortIdle
    /\ ParserIdle
    /\ LocaleIdle
    /\ e_pc = "loaded"
    /\ tmp_trs \in Stores
    /\ config \in Configs
    /\ args \in OutputArgs
    /\ sorted_locales = <<>>
    /\ sorted_keys = <<>>
    /\ new_trs = <<>>
    /\ csv = <<>>
    /\ fs \in {(args.output :> c) : c \in OldContents}
    /\ fs_in = fs
    /\ out_text = None
    /\ result = "running"
    /\ w_pc = "idle"
    /\ w_path = <<>>

\* lines 294-301: the extension, convert_text, and the call of write_file
ExportConvertText ==
    /\ e_pc = "built"
    /\ LET ext == extension(args.output)
           converted == IF ext = None THEN None ELSE convert_text(new_trs, ext[1])
       IN  IF ext = None
           THEN /\ result' = ErrNoExtension
                /\ e_pc' = "done"
                /\ UNCHANGED <<out_text, w_pc, w_path>>
           ELSE IF converted = None
           THEN /\ result' = ErrFormat
                /\ e_pc' = "done"
                /\ UNCHANGED <<out_text, w_pc, w_path>>
           ELSE /\ out_text' = converted
                /\ e_pc' = "write_file"
                /\ w_pc' = "create"
                /\ w_path' = args.output
                /\ UNCHANGED result
    /\ UNCHANGED <<tmp_trs, config, args, sorted_locales, sorted_keys, new_trs, csv>>
    /\ UNCHANGED <<fs, fs_in, notOutput>>

\* line 378: File::create(path)? makes the file or empties the one there
WriteFileCreate ==
    /\ w_pc = "create"
    /\ \/ /\ fs' = (w_path :> Some(<<>>)) @@ fs
          /\ w_pc' = "write_all"
       \/ /\ w_pc' = "failed"
          /\ UNCHANGED fs
    /\ UNCHANGED <<fs_in, out_text, result, w_path, exportVars, notOutput>>

\* line 379: output.write_all(data)? writes all of the data, or fails with
\* only some of it written
WriteFileWriteAll ==
    /\ w_pc = "write_all"
    /\ LET data == out_text[1]
       IN  \/ /\ fs' = (w_path :> Some(data)) @@ fs
              /\ w_pc' = "ok"
           \/ \E n \in 0..(Len(data) - 1) :
                 /\ fs' = (w_path :> Some(SubSeq(data, 1, n))) @@ fs
                 /\ w_pc' = "failed"
    /\ UNCHANGED <<fs_in, out_text, result, w_path, exportVars, notOutput>>

\* lines 301-306: write_file has returned to i18n_export
ExportReturn ==
    /\ e_pc = "write_file"
    /\ w_pc \in {"ok", "failed"}
    /\ result' = IF w_pc = "ok" THEN "Ok" ELSE ErrWrite
    /\ e_pc' = "done"
    /\ w_pc' = "idle"
    /\ UNCHANGED <<tmp_trs, config, args, sorted_locales, sorted_keys, new_trs, csv>>
    /\ UNCHANGED <<fs, fs_in, out_text, w_path, notOutput>>

NextOutput ==
    \/ ExportBuild
    \/ ExportConvertText
    \/ WriteFileCreate
    \/ WriteFileWriteAll
    \/ ExportReturn

SpecOutput == InitOutput /\ [][NextOutput]_vars

(***************************************************************************)
(* Claims about the written file.                                          *)
(***************************************************************************)
\* C11: a write of a target file is all-or-nothing: in every reachable
\* state the target of export holds its complete previous content or the
\* complete new text, never an empty or a truncated one.
C11_AllOrNothing ==
    \A p \in DOMAIN fs :
        \/ fs[p] = FileAt(fs_in, p)
        \/ out_text # None /\ fs[p] = Some(out_text[1])

\* the formats convert_text knows
Formats == {"csv", "json", "yaml", "yml", "toml"}

BadExtension(p) ==
    LET ext == extension(p)
    IN  IF ext = None THEN TRUE ELSE ext[1] \notin Formats

\* C12: export to an output path whose extension is missing or is none of
\* csv, json, yaml, yml, toml ends in an error: no text is ever converted,
\* write_file is never entered, the output path is neither created nor
\* modified, the step after the matrix is always possible, and what the
\* command returns is the format error.
C12_BadExtensionIsError ==
    BadExtension(args.output) =>
        /\ out_text = None
        /\ w_pc = "idle"
        /\ fs = fs_in
        /\ e_pc \in {"loaded", "built", "done"}
        /\ e_pc # "done" => result = "running"
        /\ e_pc = "built" => ENABLED ExportConvertText
        /\ e_pc = "done" => result \in {ErrNoExtension, ErrFormat}

\* C12 witness: export to out.txt over an earlier file has returned the
\* format error and the file is as it was
C12_Witness ==
    /\ e_pc = "done"
    /\ args.output = <<"out", ".", "txt">>
    /\ result = ErrFormat
    /\ fs_in[args.output] # None
    /\ fs = fs_in
    /\ Len(new_trs) > 0

(***************************************************************************)
(* cargo i18n sort (crates/cli/src/main.rs, i18n_sort, lines 383-447).     *)
(* The locals tmp_trs, config, sorted_locales, sorted_keys and new_trs of  *)
(* i18n_sort are the variables of the same names.                          *)
(***************************************************************************)
\* str::contains on a path's display string: "-sorted" is a piece of its own
Contains(p, pat) == \E i \in 1..Len(p) : p[i] = pat

\* Path::file_stem (line 435): the file name without its extension
file_stem(p) ==
    LET d == LastDot(p)
        last == IF d = 0 \/ d = LastSlash(p) + 1 THEN Len(p) ELSE d - 1
    IN  SubSeq(p, LastSlash(p) + 1, last)

\* PathBuf::set_file_name (line 433): the parent stays, the name changes
set_file_name(p, name) == SubSeq(p, 1, LastSlash(p)) \o name

\* lines 428-439: where the sorted table of entry e goes
NewPath(e, inplace) ==
    IF inplace THEN e
    ELSE set_file_name(e, file_stem(e) \o <<"-sorted", ".", extension(e)[1]>>)

\* Vec::reverse
Reverse(q) == [i \in 1..Len(q) |-> q[Len(q) + 1 - i]]

\* (variant that leaves the order ascending whatever the flag)
SortOrderAscending(q, reverse) == q

\* lines 412-415: both vectors are reversed when args.reverse is set
SortOrder(q, reverse) == IF reverse THEN Reverse(q) ELSE q

\* (variant that gives a locale without the key an empty cell)
SortCellFill(trs, l, k) ==
    IF StoreGet(trs, l, k) # None THEN StoreGet(trs, l, k) ELSE Some("")

\* line 420: tmp_trs.get(locale).and_then(|m| m.get(key))
SortCell(trs, l, k) == StoreGet(trs, l, k)

RECURSIVE SortRowObject(_, _, _, _)
\* the inner for loop over sorted_locales (lines 419-423)
SortRowObject(trs, k, locs, obj) ==
    IF locs = <<>> THEN obj
    ELSE LET msg == SortCell(trs, Head(locs), k)
         IN  SortRowObject(trs, k, Tail(locs),
                           IF msg # None
                           THEN IndexMapInsert(obj, Head(locs), msg[1])
                           ELSE obj)

RECURSIVE SortBuildRows(_, _, _, _)
\* the outer for loop over sorted_keys (lines 417-426)
SortBuildRows(trs, ks, locs, acc) ==
    IF ks = <<>> THEN acc
    ELSE SortBuildRows(trs, Tail(ks), locs,
                       IndexMapInsert(acc, Head(ks),
                                      SortRowObject(trs, Head(ks), locs, <<>>)))

\* lines 400-415: the locales of the config and of the file, in order
SortedLocales(trs, conf, reverse) ==
    SortOrder(SortSet(conf.available_locales \cup DOMAIN trs), reverse)

\* lines 408-415: the keys of the file, in order
SortedKeys(trs, reverse) ==
    SortOrder(SortSet(UNION {DOMAIN trs[l] : l \in DOMAIN trs}), reverse)

\* lines 399-426: the table rebuilt from a loaded one
SortRebuild(trs, conf, reverse) ==
    SortBuildRows(trs, SortedKeys(trs, reverse), SortedLocales(trs, conf, reverse), <<>>)

ErrSort == "sort to {} failed: {}"

\* the files under the load path the glob can match: a plain one, the
\* sibling an earlier run wrote for it, one in a directory whose name has
\* "-sorted" in it, and one with "-sorted" inside its stem
SortPaths ==
    { <<"locales", "/", "app", ".", "yml">>,
      <<"locales", "/", "app", "-sorted", ".", "yml">>,
      <<"locales", "/", "old", "-sorted", "/", "app", ".", "json">>,
      <<"locales", "/", "app", "-sorted", "-v2", ".", "toml">> }

\* the glob's matches: up to two files, in either order
SortEntries ==
    {<<>>} \cup {<<a>> : a \in SortPaths}
           \cup {ab \in SortPaths \X SortPaths : ab[1] # ab[2]}

\* what load_locale reads from a file
SortStores ==
    { <<>>,
      [l \in {"es"} |-> [k \in {"hello"} |-> "Hola"]],
      [l \in {"en", "es"} |-> [k \in {"bye", "hello"} |-> "Hello"]],
      [l \in {"en", "es"} |-> IF l = "en" THEN [k \in {"hello", "bye"} |-> "Hello"]
                                         ELSE [k \in {"hello"} |-> "Hola"]] }

SortArgs == [inplace : BOOLEAN, reverse : BOOLEAN]

SortConfigs ==
    [available_locales : {{}, {"en", "fr"}}, default_locale : {"en"}]

Range(q) == {q[i] : i \in 1..Len(q)}

InitSort ==
    /\ LookupIdle
    /\ FilterIdle
    /\ ExtractIdle
    /\ ParserIdle
    /\ LocaleIdle
    /\ e_pc = "idle"
    /\ args = <<>>
    /\ csv = <<>>
    /\ tmp_trs = <<>>
    /\ config \in SortConfigs
    /\ sorted_locales = <<>>
    /\ sorted_keys = <<>>
    /\ new_trs = <<>>
    /\ s_pc = "loop"
    /\ sort_args \in SortArgs
    /\ entries \in SortEntries
    /\ locale_files \in [Range(entries) -> SortStores]
    /\ entry = None
    /\ skipped = {}
    /\ sorted_to = <<>>
    /\ fs = [p \in Range(entries) |-> Some(<< <<"old">> >>)]
    /\ fs_in = fs
    /\ out_text = None
    /\ result = "running"
    /\ w_pc = "idle"
    /\ w_path = <<>>

\* lines 392-395: the next match is passed over
SortSkip ==
    /\ s_pc = "loop"
    /\ entries # <<>>
    /\ ~sort_args.inplace /\ Contains(Head(entries), "-sorted")
    /\ skipped' = skipped \cup {Head(entries)}
    /\ entries' = Tail(entries)
    /\ UNCHANGED <<s_pc, sort_args, locale_files, entry, sorted_to>>
    /\ UNCHANGED <<exportVars, outputVars, notSort>>

\* lines 392-442: the next match is loaded, its table rebuilt and
\* converted, and write_file called
SortLoad ==
    /\ s_pc = "loop"
    /\ entries # <<>>
    /\ ~(~sort_args.inplace /\ Contains(Head(entries), "-sorted"))
    /\ LET e == Head(entries)
           trs == locale_files[e]
           rebuilt == SortRebuild(trs, config, sort_args.reverse)
           converted == convert_text(rebuilt, extension(e)[1])
       IN  /\ entry' = Some(e)
           /\ entries' = Tail(entries)
           /\ tmp_trs' = trs
           /\ sorted_locales' = SortedLocales(trs, config, sort_args.reverse)
           /\ sorted_keys' = SortedKeys(trs, sort_args.reverse)
           /\ new_trs' = rebuilt
           /\ IF converted = None
              THEN /\ result' = ErrFormat
                   /\ s_pc' = "done"
                   /\ UNCHANGED <<out_text, w_pc, w_path>>
              ELSE /\ out_text' = converted
                   /\ w_path' = NewPath(e, sort_args.inplace)
                   /\ w_pc' = "create"
                   /\ s_pc' = "write_file"
                   /\ UNCHANGED result
    /\ UNCHANGED <<sort_args, locale_files, skipped, sorted_to>>
    /\ UNCHANGED <<e_pc, config, args, csv, fs, fs_in, notSort>>

\* lines 442-445: write_file has returned to i18n_sort
SortWritten ==
    /\ s_pc = "write_file"
    /\ w_pc \in {"ok", "failed"}
    /\ IF w_pc = "ok"
       THEN /\ sorted_to' = (entry[1] :> w_path) @@ sorted_to
            /\ s_pc' = "loop"
            /\ UNCHANGED result
       ELSE /\ result' = ErrSort
            /\ s_pc' = "done"
            /\ UNCHANGED sorted_to
    /\ w_pc' = "idle"
    /\ UNCHANGED <<sort_args, locale_files, entries, entry, skipped>>
    /\ UNCHANGED <<exportVars, fs, fs_in, out_text, w_path, notSort>>

\* line 446: no match is left
SortReturn ==
    /\ s_pc = "loop"
    /\ entries = <<>>
    /\ result' = "Ok"
    /\ s_pc' = "done"
    /\ UNCHANGED <<sort_args, locale_files, entries, entry, skipped, sorted_to>>
    /\ UNCHANGED <<exportVars, fs, fs_in, out_text, w_pc, w_path, notSort>>

NextSort ==
    \/ SortSkip
    \/ SortLoad
    \/ WriteFileCreate
    \/ WriteFileWriteAll
    \/ SortWritten
    \/ SortReturn

SpecSort == InitSort /\ [][NextSort]_vars

(***************************************************************************)
(* Claims about sort.                                                      *)
(***************************************************************************)
\* a match has been loaded and its table rebuilt
Rebuilt == entry # None

\* q lists strings in strictly ascending (descending) order
Ascending(q) == \A i \in 1..(Len(q) - 1) : StrLess(q[i], q[i + 1])

Descending(q) == \A i \in 1..(Len(q) - 1) : StrLess(q[i + 1], q[i])

\* C13: for every locale file processed by sort, the rebuilt table lists
\* the keys in ascending order and, inside each key, the locales in
\* ascending order; with the reverse flag both orders are descending.
C13_SortedBothWays ==
    Rebuilt =>
        IF sort_args.reverse
        THEN /\ Descending(MapKeys(new_trs))
             /\ \A i \in 1..Len(new_trs) : Descending(MapKeys(new_trs[i][2]))
        ELSE /\ Ascending(MapKeys(new_trs))
             /\ \A i \in 1..Len(new_trs) : Ascending(MapKeys(new_trs[i][2]))

\* C13 witness: a file with two keys, one held by two locales, sorted with
\* the reverse flag
C13_Witness ==
    /\ Rebuilt
    /\ sort_args.reverse
    /\ MapKeys(new_trs) = <<"hello", "bye">>
    /\ MapKeys(new_trs[1][2]) = <<"es", "en">>

\* the file name of p bears the "-sorted" suffix
BearsSuffix(p) ==
    LET stem == file_stem(p)
    IN  stem # <<>> /\ stem[Len(stem)] = "-sorted"

\* the sibling <stem>-sorted.<ext> of p
Sibling(p) ==
    SubSeq(p, 1, LastSlash(p)) \o file_stem(p) \o <<"-sorted", ".", p[Len(p)]>>

\* C14: without the in-place flag the matches sort skips are exactly those
\* whose file name bears the "-sorted" suffix, and every other match is
\* sorted into its sibling <stem>-sorted.<ext>; with the flag no match is
\* skipped and each is overwritten at its own path.
C14_SkipsExactlySuffixed ==
    /\ \A p \in skipped : ~sort_args.inplace /\ BearsSuffix(p)
    /\ \A p \in DOMAIN sorted_to :
          IF sort_args.inplace THEN sorted_to[p] = p
          ELSE ~BearsSuffix(p) /\ sorted_to[p] = Sibling(p)
    /\ result = "Ok" => skipped \cup DOMAIN sorted_to = DOMAIN locale_files

\* the (key, locale, value) entries of a loaded file
StoreEntries(trs) ==
    UNION {{<<k, l, trs[l][k]>> : k \in DOMAIN trs[l]} : l \in DOMAIN trs}

\* the (key, locale, value) entries of a rebuilt table
TableEntries(t) ==
    UNION {{<<t[i][1], t[i][2][j][1], t[i][2][j][2]>> : j \in 1..Len(t[i][2])} : i \in 1..Len(t)}

\* no key twice in the table, no locale twice under a key
NoDuplicates(t) ==
    /\ Cardinality(Range(MapKeys(t))) = Len(t)
    /\ \A i \in 1..Len(t) : Cardinality(Range(MapKeys(t[i][2]))) = Len(t[i][2])

\* what load_locale reads back from a written table
TableStore(t) ==
    LET ls == UNION {Range(MapKeys(t[i][2])) : i \in 1..Len(t)}
    IN  [l \in ls |->
            LET rows == {i \in 1..Len(t) : l \in Range(MapKeys(t[i][2]))}
            IN  [k \in {t[i][1] : i \in rows} |->
                    LET i == CHOOSE r \in rows : t[r][1] = k
                        j == CHOOSE c \in 1..Len(t[i][2]) : t[i][2][c][1] = l
                    IN  t[i][2][j][2]]]

\* C17: sort neither loses nor invents translations: the entries of the
\* rebuilt table are those of the loaded file, each once; a locale that
\* lacks a key gets no cell for it and a locale declared only in the config
\* adds none; sorting the rebuilt table again yields the same table.
C17_SameEntries ==
    Rebuilt =>
        /\ TableEntries(new_trs) = StoreEntries(tmp_trs)
        /\ NoDuplicates(new_trs)
        /\ \A i \in 1..Len(new_trs) : \A j \in 1..Len(new_trs[i][2]) :
              StoreGet(tmp_trs, new_trs[i][2][j][1], new_trs[i][1]) = Some(new_trs[i][2][j][2])
        /\ SortRebuild(TableStore(new_trs), config, sort_args.reverse) = new_trs

\* C17 witness: the config declares fr, the file has en and es, es lacks
\* bye: the row of bye has the one cell of en
C17_Witness ==
    /\ Rebuilt
    /\ ~sort_args.reverse
    /\ "fr" \in config.available_locales
    /\ DOMAIN tmp_trs = {"en", "es"}
    /\ StoreGet(tmp_trs, "es", "bye") = None
    /\ new_trs[1] = <<"bye", << <<"en", "Hello">> >> >>
    /\ Len(new_trs) = 2

(***************************************************************************)
(* The value parser of the -t option (crates/cli/src/main.rs,              *)
(* remove_quotes and translate_value_parser, lines 137-159).  A text is a  *)
(* sequence of characters.                                                 *)
(***************************************************************************)
MaxTextLen == 4

TextChars == {" ", "\"", "a", "=", ">"}

Texts == UNION {[1..n -> TextChars] : n \in 0..MaxTextLen}

\* str::trim: the text without its leading and trailing whitespace
RECURSIVE TrimStart(_)
TrimStart(t) == IF Len(t) > 0 /\ t[1] = " " THEN TrimStart(Tail(t)) ELSE t

RECURSIVE TrimEnd(_)
TrimEnd(t) ==
    IF Len(t) > 0 /\ t[Len(t)] = " " THEN TrimEnd(SubSeq(t, 1, Len(t) - 1)) ELSE t

Trim(t) == TrimEnd(TrimStart(t))

\* str::split_once("=>"): the texts before and after the first "=>"
ArrowAt(t) == {i \in 1..(Len(t) - 1) : t[i] = "=" /\ t[i + 1] = ">"}

split_once(t) ==
    IF ArrowAt(t) = {} THEN None
    ELSE LET i == CHOOSE x \in ArrowAt(t) : \A y \in ArrowAt(t) : x <= y
         IN  Some(<<SubSeq(t, 1, i - 1), SubSeq(t, i + 2, Len(t))>>)

\* remove_quotes (lines 137-148): Some(&s[start..end]); None when the slice
\* panics because start is past end
remove_quotes(t) ==
    LET start == IF Len(t) > 0 /\ t[1] = "\"" THEN 1 ELSE 0
        end == IF Len(t) > 0 /\ t[Len(t)] = "\"" THEN Len(t) - 1 ELSE Len(t)
    IN  IF start > end THEN None ELSE Some(SubSeq(t, start + 1, end))

\* translate_value_parser (lines 150-159): Some((key, msg)) for Ok; None
\* when remove_quotes panics
translate_value_parser(t) ==
    LET parts == split_once(t)
    IN  IF parts # None
        THEN LET k == remove_quotes(Trim(parts[1][1]))
                 m == remove_quotes(Trim(parts[1][2]))
             IN  IF k = None \/ m = None THEN None ELSE Some(<<k[1], m[1]>>)
        ELSE Some(<<t, t>>)

InitParser ==
    /\ LookupIdle
    /\ FilterIdle
    /\ ExportIdle
    /\ ExtractIdle
    /\ OutputIdle
    /\ SortIdle
    /\ LocaleIdle
    /\ p_pc = "call"
    /\ p_s \in Texts
    /\ p_result = None

\* clap hands one -t text to the parser
ParseTranslate ==
    /\ p_pc = "call"
    /\ p_result' = translate_value_parser(p_s)
    /\ p_pc' = IF translate_value_parser(p_s) = None THEN "panicked" ELSE "returned"
    /\ UNCHANGED <<p_s, notParser>>

NextParser == ParseTranslate

SpecParser == InitParser /\ [][NextParser]_vars

(***************************************************************************)
(* Claims about the -t parser.                                             *)
(***************************************************************************)
\* one surrounding pair of double quotes removed
UnquotePair(t) ==
    IF Len(t) >= 2 /\ t[1] = "\"" /\ t[Len(t)] = "\"" THEN SubSeq(t, 2, Len(t) - 1) ELSE t

\* a leading and a trailing double quote removed, each if it is there
UnquoteEach(t) ==
    LET a == IF Len(t) > 0 /\ t[1] = "\"" THEN Tail(t) ELSE t
    IN  IF Len(a) > 0 /\ a[Len(a)] = "\"" THEN SubSeq(a, 1, Len(a) - 1) ELSE a

\* the readings of "surrounding whitespace and quotes removed"
Cleaned(t) == {UnquotePair(Trim(t)), UnquoteEach(Trim(t))}

\* C15: for every text given to -t, translate_value_parser returns a pair
\* whose key and value have surrounding whitespace and surrounding double
\* quotes removed: "k => v" gives (cleaned k, cleaned v), a text without
\* "=>" gives the same cleaned text as both; a pair comes back for every
\* text.
C15_PairTrimmedAndUnquoted ==
    p_pc # "call" =>
        /\ p_pc = "returned"
        /\ p_result # None
        /\ LET parts == split_once(p_s)
           IN  IF parts # None
               THEN /\ p_result[1][1] \in Cleaned(parts[1][1])
                    /\ p_result[1][2] \in Cleaned(parts[1][2])
               ELSE /\ p_result[1][1] \in Cleaned(p_s)
                    /\ p_result[1][2] = p_result[1][1]

(***************************************************************************)
(* The current locale and the Lazy backend (crates/macro/src/lib.rs,       *)
(* lines 299-305 and 338-346).  _RUST_I18N_BACKEND is a once_cell Lazy:    *)
(* its closure runs at the first dereference, which is the first           *)
(* _RUST_I18N_BACKEND.translate of _rust_i18n_try_translate, and the       *)
(* closure ends with rust_i18n::set_locale(default_locale) when the macro  *)
(* was given a default locale.                                             *)
(***************************************************************************)
\* the closure of the Lazy (lines 338-346) as far as the current locale
\* goes: #default_locale is rust_i18n::set_locale(default), which makes
\* default the current locale, or nothing
LazyNew(cur, dflt) == IF dflt # None THEN dflt[1] ELSE cur

\* the dereference of _RUST_I18N_BACKEND (line 384): the closure runs if it
\* has not run yet
LazyForce(cur, dflt, built) == IF built THEN cur ELSE LazyNew(cur, dflt)

\* the locale the program starts in
StartLocale == <<"e", "n">>

\* the locales a program sets
SetLocales == TableLocales \cup {<<"a", "-", "x">>}

\* the default_locale the macro is given (lines 124-145, 182)
DefaultLocales == {None, Some(<<"a">>), Some(<<"x">>)}

\* two of the backends of the lookup
LocaleBackends ==
    { [l \in TableLocales |-> <<>>],
      [l \in TableLocales |-> IF l = <<"a">> THEN (<<"k">> :> <<"v">>) ELSE <<>>] }

InitLocale ==
    /\ FilterIdle
    /\ ExportIdle
    /\ ExtractIdle
    /\ OutputIdle
    /\ SortIdle
    /\ ParserIdle
    /\ backend \in LocaleBackends
    /\ fallback \in {None, Some(<< <<"x">> >>)}
    /\ op = "none"
    /\ locale = <<>>
    /\ key = <<>>
    /\ try_result = None
    /\ tr_result = <<>>
    /\ probed = <<>>
    /\ CURRENT_LOCALE = StartLocale
    /\ default_locale \in DefaultLocales
    /\ lazy_built = FALSE
    /\ locale_before = <<>>

\* the program calls rust_i18n::set_locale(l): l becomes the current locale
SetLocale ==
    /\ op = "none"
    /\ \E l \in SetLocales : CURRENT_LOCALE' = l
    /\ UNCHANGED <<default_locale, lazy_built, locale_before, lookupVars, notLocale>>

\* a call of _rust_i18n_try_translate, the Lazy included
LazyTryTranslate ==
    /\ op = "none"
    /\ \E l \in {CURRENT_LOCALE} \cup TableLocales, k \in TableKeys :
        LET r == rust_i18n_try_translate(backend, fallback, l, k)
        IN  /\ op' = "try_translate"
            /\ locale' = l
            /\ key' = k
            /\ try_result' = r.value
            /\ probed' = r.probed
            /\ tr_result' = <<>>
    /\ locale_before' = CURRENT_LOCALE
    /\ CURRENT_LOCALE' = LazyForce(CURRENT_LOCALE, default_locale, lazy_built)
    /\ lazy_built' = TRUE
    /\ UNCHANGED <<backend, fallback, default_locale, notLocale>>

\* a call of _rust_i18n_translate, the Lazy included
LazyTranslate ==
    /\ op = "none"
    /\ \E l \in {CURRENT_LOCALE} \cup TableLocales, k \in TableKeys :
        LET r == rust_i18n_try_translate(backend, fallback, l, k)
        IN  /\ op' = "translate"
            /\ locale' = l
            /\ key' = k
            /\ try_result' = r.value
            /\ probed' = r.probed
            /\ tr_result' = rust_i18n_translate(backend, fallback, l, k)
    /\ locale_before' = CURRENT_LOCALE
    /\ CURRENT_LOCALE' = LazyForce(CURRENT_LOCALE, default_locale, lazy_built)
    /\ lazy_built' = TRUE
    /\ UNCHANGED <<backend, fallback, default_locale, notLocale>>

\* the caller takes the result; the next call may follow
LocaleReturn ==
    /\ op # "none"
    /\ op' = "none"
    /\ locale' = <<>>
    /\ key' = <<>>
    /\ try_result' = None
    /\ tr_result' = <<>>
    /\ probed' = <<>>
    /\ locale_before' = <<>>
    /\ UNCHANGED <<backend, fallback, CURRENT_LOCALE, default_locale, lazy_built, notLocale>>

NextLocale ==
    \/ SetLocale
    \/ LazyTryTranslate
    \/ LazyTranslate
    \/ LocaleReturn

SpecLocale == InitLocale /\ [][NextLocale]_vars

(***************************************************************************)
(* Claim about the current locale.                                         *)
(***************************************************************************)
\* C16: a lookup never changes the current locale: after every translate
\* call, the first one that constructs the backend included, the current
\* locale is the one from before the call.
C16_LookupKeepsLocale ==
    op # "none" => CURRENT_LOCALE = locale_before

====
